---------------------------- MODULE Spec2Model ----------------------------
(***************************************************************************)
(* Model of the task queue of iree/hal/local/task_queue.c: the lowering of *)
(* submission batches to wait / issue / retire tasks, the tail_issue_task  *)
(* hand-off, and the lifecycle callbacks of the three commands.            *)
(*                                                                         *)
(* The task executor, the semaphores, the command buffers and the arena    *)
(* are collaborators whose code is not part of the modelled file; they are *)
(* modelled by their contracts (a task runs once it was handed to the      *)
(* executor and its pending dependency count is zero; a completing task    *)
(* notifies the single task held in its completion_task field and then has *)
(* its cleanup callback called with its status).                           *)
(***************************************************************************)
EXTENDS Naturals, Sequences, FiniteSets, TLC

\* ------------------------------------------------------------------ bounds
NumBatches == 2
NumThreads == 2
NumSems == 2
NumQueueSems == 1
MaxValue == 1
MaxList == 1
MaxCmds == 1
MaxIssueCmds == 3
MaxLongList == 2

Batches == 1..NumBatches
Threads == 1..NumThreads
\* The threads that call submit in the sequential specification.
Callers == {1}
Sems == 1..NumSems
\* The semaphores the queue's batches signal; the others are signaled from
\* outside the queue (the host, another queue) and batches only wait on them.
QueueSems == 1..NumQueueSems
ExternalSems == Sems \ QueueSems
Values == 1..MaxValue

\* A timepoint is <<semaphore, payload value>>.
Timepoints == Sems \X Values

RECURSIVE SeqsUpTo(_, _)
SeqsUpTo(S, n) ==
  IF n = 0 THEN {<<>>}
  ELSE LET shorter == SeqsUpTo(S, n - 1)
       IN shorter \cup {Append(q, x) : q \in {r \in shorter : Len(r) = n - 1}, x \in S}

\* iree_hal_semaphore_list_t values a batch may carry as wait_semaphores and
\* as signal_semaphores.
WaitLists == SeqsUpTo(Timepoints, MaxList)
SignalLists == SeqsUpTo(QueueSems \X Values, MaxList)
\* Lists of up to MaxLongList entries over all the semaphores.
LongLists == SeqsUpTo(Timepoints, MaxLongList)

\* ------------------------------------------------------------------- tasks
TaskKinds == {"wait", "issue", "retire"}
Tasks == TaskKinds \X Batches
NULL == <<"null", 0>>
WaitTask(b) == <<"wait", b>>
IssueTask(b) == <<"issue", b>>
RetireTask(b) == <<"retire", b>>
Fence(b) == <<"fence", b>>

\* Where SubmitBatch can fail (each IREE_RETURN_IF_ERROR / status check).
FailPoints == {"none", "retire_alloc", "signal_clone", "fence", "wait_alloc",
               "wait_clone", "issue_alloc"}

VARIABLES
  batches,                  \* per batch: the batch as given to SubmitBatch and how the call ended
  nbatches,                 \* number of SubmitBatch calls made so far
  tstate,                   \* per task record: none / new / running / done
  completion_task,          \* task.header.completion_task
  pending_dependency_count, \* per task: completion edges and forked work not yet fired
  enqueued,                 \* per task: handed to the executor (as head task or by its last dependency)
  tstatus,                  \* per task: status it carries (own result or a failed dependency's)
  tail_issue_task,          \* queue->tail_issue_task
  cmds,                     \* per batch, per command buffer: none / issued / done, and the wired edge
  timepoints,               \* per batch, per wait-list entry: none / elided / pending / reached / failed
  sems,                     \* per semaphore: payload value and failure latch
  semaphore_retains,        \* per semaphore: iree_hal_semaphore_retain calls made by the queue
  semaphore_releases,       \* per semaphore: iree_hal_semaphore_release calls made by the queue
  arena,                    \* per batch: none / live / freed
  arena_deinits,            \* per batch: iree_arena_deinitialize calls
  block,                    \* per batch: the block of queue->block_pool its arena took
  outstanding,              \* the scope's outstanding (fence) count
  threads,                  \* per submitting thread: position in iree_hal_task_queue_submit
  flushes,                  \* iree_task_executor_flush calls
  idle_result,              \* status returned by an iree_hal_task_queue_wait_idle call that has just returned
  queue_state               \* live / deinitialized / assert_failed

vars == <<batches, nbatches, tstate, completion_task, pending_dependency_count,
          enqueued, tstatus, tail_issue_task, cmds, timepoints, sems,
          semaphore_retains, semaphore_releases, arena, arena_deinits, block,
          outstanding, threads, flushes, idle_result, queue_state>>

NoBatch == [phase |-> "unused", wait_semaphores |-> <<>>, signal_semaphores |-> <<>>,
            command_buffer_count |-> 0, fail_at |-> 0, failure |-> "none"]

\* iree_hal_task_queue_initialize: memset 0, tail_issue_task = NULL.
Init ==
  /\ batches = [b \in Batches |-> NoBatch]
  /\ nbatches = 0
  /\ tstate = [t \in Tasks |-> "none"]
  /\ completion_task = [t \in Tasks |-> NULL]
  /\ pending_dependency_count = [t \in Tasks |-> 0]
  /\ enqueued = [t \in Tasks |-> FALSE]
  /\ tstatus = [t \in Tasks |-> "ok"]
  /\ tail_issue_task = NULL
  /\ cmds = [b \in Batches |-> <<>>]
  /\ timepoints = [b \in Batches |-> <<>>]
  /\ sems = [s \in Sems |-> [value |-> 0, failed |-> FALSE]]
  /\ semaphore_retains = [s \in Sems |-> 0]
  /\ semaphore_releases = [s \in Sems |-> 0]
  /\ arena = [b \in Batches |-> "none"]
  /\ arena_deinits = [b \in Batches |-> 0]
  /\ block = [b \in Batches |-> 0]
  /\ outstanding = 0
  /\ threads = [t \in Threads |-> [pc |-> "idle", left |-> 0, cur |-> 0, status |-> "none"]]
  /\ flushes = 0
  /\ idle_result = "none"
  /\ queue_state = "live"


\* ------------------------------------------------- semaphore list utilities
\* Number of entries of list that name semaphore s.
CountOf(list, s) == Cardinality({i \in 1..Len(list) : list[i][1] = s})

\* iree_hal_semaphore_list_clone: one retain per entry of the source list.
iree_hal_semaphore_list_clone(list, retains) ==
  [s \in Sems |-> retains[s] + CountOf(list, s)]

\* iree_hal_semaphore_list_release: one release per entry of the list.
iree_hal_semaphore_list_release(list, releases) ==
  [s \in Sems |-> releases[s] + CountOf(list, s)]

\* ------------------------------------------------ executor task primitives
\* The part of the state that task edges and wake-ups act on.
World == [sems |-> sems, tp |-> timepoints, pdc |-> pending_dependency_count,
          enq |-> enqueued, st |-> tstatus, ct |-> completion_task]

\* iree_task_set_completion_task: the task's single completion_task field is
\* set and the target gains one pending dependency.
iree_task_set_completion_task(W, task, target) ==
  [W EXCEPT !.ct[task] = target,
            !.pdc = IF target \in Tasks THEN [@ EXCEPT ![target] = @ + 1] ELSE @]

\* A dependency of target fired with the given status: one pending dependency
\* less, the status is forwarded when it is an error, and the target is handed
\* to the executor when that was its last dependency.
Notify(W, target, status) ==
  IF target \notin Tasks \/ W.pdc[target] = 0 THEN W
  ELSE [W EXCEPT !.pdc[target] = @ - 1,
                 !.enq[target] = @ \/ (W.pdc[target] = 1),
                 !.st[target] = IF status = "err" THEN "err" ELSE @]

\* Work forked by a task (a timepoint wait, a command) that will fire target.
Fork(W, target) ==
  IF target \in Tasks THEN [W EXCEPT !.pdc[target] = @ + 1] ELSE W

\* ---------------------------------------------------------------- semaphores
\* Length of the longest wait list among the batches.
MaxListLen ==
  LET lens == {Len(batches[b].wait_semaphores) : b \in Batches}
  IN CHOOSE n \in lens : \A m \in lens : m <= n

\* Pending timepoints of semaphore s that its current state satisfies or fails.
Due(W, s) ==
  {p \in {q \in Batches \X (1..MaxListLen) : q[2] <= Len(W.tp[q[1]])} :
     /\ W.tp[p[1]][p[2]] = "pending"
     /\ batches[p[1]].wait_semaphores[p[2]][1] = s
     /\ \/ W.sems[s].failed
        \/ W.sems[s].value >= batches[p[1]].wait_semaphores[p[2]][2]}

\* The semaphore wakes the completion task of every due timepoint.
RECURSIVE FireTimepoints(_, _)
FireTimepoints(W, s) ==
  LET due == Due(W, s) IN
  IF due = {} THEN W
  ELSE LET p == CHOOSE q \in due : TRUE
           failed == W.sems[s].failed
           W1 == [W EXCEPT !.tp[p[1]][p[2]] = IF failed THEN "failed" ELSE "reached"]
       IN FireTimepoints(Notify(W1, W.ct[WaitTask(p[1])], IF failed THEN "err" ELSE "ok"), s)

\* iree_hal_semaphore_signal: advances the monotonic counter; fails when the
\* semaphore is failed or the value does not advance it.
SignalOk(W, s, v) == ~W.sems[s].failed /\ v > W.sems[s].value

iree_hal_semaphore_signal(W, s, v) ==
  IF SignalOk(W, s, v) THEN FireTimepoints([W EXCEPT !.sems[s].value = v], s) ELSE W

\* iree_hal_semaphore_fail: latches the failed state (idempotent).
iree_hal_semaphore_fail(W, s) ==
  FireTimepoints([W EXCEPT !.sems[s].failed = TRUE], s)

\* iree_hal_task_semaphore_enqueue_timepoint: "err" on a failed semaphore,
\* elided when the value was already reached, else a pending timepoint that
\* will fire the completion task.
EnqueueOutcome(W, s, v) ==
  IF W.sems[s].failed THEN "err"
  ELSE IF W.sems[s].value >= v THEN "elided" ELSE "pending"


\* ------------------------------------------------------------ the wait task
\* Variant: no failing enqueue ends the loop.
WaitFirstError_None(W, b) == 0

\* iree_hal_task_queue_wait_cmd: enqueues the timepoints in list order and
\* breaks at the first failing enqueue. Index of that entry, 0 when none fails.
WaitFirstError(W, b) ==
  LET list == batches[b].wait_semaphores
      bad == {i \in 1..Len(list) : EnqueueOutcome(W, list[i][1], list[i][2]) = "err"}
  IN IF bad = {} THEN 0 ELSE CHOOSE i \in bad : \A j \in bad : i <= j

RECURSIVE WaitLoop(_, _, _, _)
WaitLoop(W, b, i, last) ==
  IF i > last THEN W
  ELSE LET tpt == batches[b].wait_semaphores[i]
           out == EnqueueOutcome(W, tpt[1], tpt[2])
           W1 == [W EXCEPT !.tp[b][i] = out]
       IN WaitLoop(IF out = "pending" THEN Fork(W1, W.ct[WaitTask(b)]) ELSE W1,
                   b, i + 1, last)

iree_hal_task_queue_wait_cmd(W, b) ==
  LET n == Len(batches[b].wait_semaphores)
      e == WaitFirstError(W, b)
      W1 == WaitLoop(W, b, 1, IF e = 0 THEN n ELSE e - 1)
  IN [W1 EXCEPT !.st[WaitTask(b)] = IF e = 0 THEN "ok" ELSE "err"]

\* ----------------------------------------------------------- the issue task
\* Variant: the loop goes on after a command buffer failed to issue.
IssuedCount_NoBreak(b) == batches[b].command_buffer_count

\* iree_hal_task_queue_issue_cmd: number of command buffers issued before the
\* loop ends (all of them, or those before the first failing one).
IssuedCount(b) ==
  IF batches[b].fail_at = 0 THEN batches[b].command_buffer_count
  ELSE batches[b].fail_at - 1

\* Variant: the commands are issued with no completion edge at all.
IssueEdge_None(b) == NULL

\* The completion edge every iree_hal_task_command_buffer_issue call is given:
\* the issue task's completion_task as it is when the task runs.
IssueEdge(b) == completion_task[IssueTask(b)]

iree_hal_task_queue_issue_cmd(b) ==
  [i \in 1..batches[b].command_buffer_count |->
     IF i <= IssuedCount(b) THEN [state |-> "issued", edge |-> IssueEdge(b)]
     ELSE cmds[b][i]]

\* Where a task record lies: the block its batch's arena took from the pool
\* and, within it, the place of a command of its kind (commands of one kind
\* are taken to land at the same offset of their blocks).
Address(task) == <<task[1], block[task[2]]>>

\* Variant: the cleanup leaves the tail alone.
issue_cmd_cleanup_KeepTail(tail, b) == tail

\* Variant: the cleanup resets the tail whichever task it designates.
issue_cmd_cleanup_AlwaysNull(tail, b) == NULL

\* iree_hal_task_queue_issue_cmd_cleanup: resets the tail if it was us; the
\* test compares pointers.
iree_hal_task_queue_issue_cmd_cleanup(tail, b) ==
  IF tail # NULL /\ Address(tail) = Address(IssueTask(b)) THEN NULL ELSE tail

\* ---------------------------------------------------------- the retire task
\* Variant: the loop goes on after a failing signal.
RECURSIVE RetireLoop_NoBreak(_, _, _)
RetireLoop_NoBreak(W, b, i) ==
  LET list == batches[b].signal_semaphores IN
  IF i > Len(list) THEN W
  ELSE IF SignalOk(W, list[i][1], list[i][2])
       THEN RetireLoop_NoBreak(iree_hal_semaphore_signal(W, list[i][1], list[i][2]), b, i + 1)
       ELSE RetireLoop_NoBreak([W EXCEPT !.st[RetireTask(b)] = "err"], b, i + 1)

\* iree_hal_task_queue_retire_cmd: signals in list order, breaks at the first
\* failing signal, whose error is the task's status.
RECURSIVE RetireLoop(_, _, _)
RetireLoop(W, b, i) ==
  LET list == batches[b].signal_semaphores IN
  IF i > Len(list) THEN W
  ELSE IF SignalOk(W, list[i][1], list[i][2])
       THEN RetireLoop(iree_hal_semaphore_signal(W, list[i][1], list[i][2]), b, i + 1)
       ELSE [W EXCEPT !.st[RetireTask(b)] = "err"]

iree_hal_task_queue_retire_cmd(W, b) == RetireLoop(W, b, 1)

\* Variant: only the semaphores whose signal was not issued are failed.
RECURSIVE FailLoop_Unsignaled(_, _, _)
FailLoop_Unsignaled(W, b, i) ==
  LET list == batches[b].signal_semaphores IN
  IF i > Len(list) THEN W
  ELSE FailLoop_Unsignaled(IF W.sems[list[i][1]].value >= list[i][2] THEN W
                           ELSE iree_hal_semaphore_fail(W, list[i][1]), b, i + 1)

\* iree_hal_task_queue_retire_cmd_cleanup, first part: with a non-ok status
\* every signal semaphore is failed.
RECURSIVE FailLoop(_, _, _)
FailLoop(W, b, i) ==
  LET list == batches[b].signal_semaphores IN
  IF i > Len(list) THEN W
  ELSE FailLoop(iree_hal_semaphore_fail(W, list[i][1]), b, i + 1)

RetireCleanupFails(status) == status # "ok"

iree_hal_task_queue_retire_cmd_cleanup(W, b, status) ==
  IF RetireCleanupFails(status) THEN FailLoop(W, b, 1) ELSE W


\* --------------------------------------------------------------- SubmitBatch
\* How far iree_hal_task_queue_submit_batch gets before the given failure.
Stage(fp) ==
  CASE fp = "retire_alloc" -> 1
    [] fp = "signal_clone" -> 2
    [] fp = "fence" -> 3
    [] fp = "wait_alloc" -> 4
    [] fp = "wait_clone" -> 5
    [] fp = "issue_alloc" -> 6
    [] OTHER -> 7

\* iree_hal_task_queue_retire_cmd_allocate cloned (and retained) the signal list.
SignalsCloned(fp) == Stage(fp) > Stage("signal_clone")
\* iree_task_executor_acquire_fence succeeded: the scope counts the fence.
FenceAcquired(fp) == Stage(fp) > Stage("fence")
\* A wait command is allocated only for a batch that has waits.
NeedsWaitCmd(ws) == Len(ws) > 0
\* iree_hal_task_queue_wait_cmd_allocate cloned (and retained) the wait list.
WaitsCloned(fp, ws) == NeedsWaitCmd(ws) /\ Stage(fp) > Stage("wait_clone")

\* The failures a batch with this wait list can meet.
PossibleFailures(ws) ==
  IF NeedsWaitCmd(ws) THEN FailPoints ELSE FailPoints \ {"wait_alloc", "wait_clone"}

\* Retains taken by the clones that succeeded before the failure point.
RetainsAfterBuild(fp, ws, ss) ==
  LET r1 == IF SignalsCloned(fp) THEN iree_hal_semaphore_list_clone(ss, semaphore_retains)
            ELSE semaphore_retains
  IN IF WaitsCloned(fp, ws) THEN iree_hal_semaphore_list_clone(ws, r1) ELSE r1

\* Releases made on the failure path of SubmitBatch: it only deinitializes the
\* arena, which gives the blocks back and calls nothing.
ReleasesAfterFailure(fp, ws, ss) == semaphore_releases

\* Sequencing: the wait command, when there is one, completes into the issue.
SequenceWait(W, b, ws) ==
  IF NeedsWaitCmd(ws)
  THEN iree_task_set_completion_task(W, WaitTask(b), IssueTask(b))
  ELSE W

\* Variant: the issue task is enqueued into the submission whatever the waits.
HeadTask_Issue(b) == IssueTask(b)

\* The task enqueued into the submission handed to the executor.
HeadTask(b) ==
  IF NeedsWaitCmd(batches[b].wait_semaphores) THEN WaitTask(b) ELSE IssueTask(b)

\* Variant: the new issue task is chained behind the retire task of the batch
\* in flight, which orders it after that batch's commands.
ChainOntoTail_Retire(W, tail, b) ==
  IF tail # NULL
  THEN iree_task_set_completion_task(W, RetireTask(tail[2]), IssueTask(b)) ELSE W

\* Variant: the in-flight issue task is chained to the new batch's wait task.
ChainOntoTail_Wait(W, tail, b) ==
  IF tail # NULL THEN iree_task_set_completion_task(W, tail, WaitTask(b)) ELSE W

\* Variant: the in-flight issue task is chained to the new batch's retire task,
\* which orders that retire after the earlier batch.
ChainOntoTail_ToRetire(W, tail, b) ==
  IF tail # NULL THEN iree_task_set_completion_task(W, tail, RetireTask(b)) ELSE W

\* Variant: the new issue task is not chained onto the in-flight one.
ChainOntoTail_NoEdge(W, tail, b) == W

\* Under the mutex: chain onto the in-flight issue, if any.
ChainOntoTail(W, tail, b) ==
  IF tail # NULL THEN iree_task_set_completion_task(W, tail, IssueTask(b)) ELSE W

\* The edges of a successfully built batch, in the order the code sets them.
BuildEdges(W, b, ws) ==
  LET W1 == iree_task_set_completion_task(W, RetireTask(b), Fence(b))
      W2 == iree_task_set_completion_task(W1, IssueTask(b), RetireTask(b))
      W3 == SequenceWait(W2, b, ws)
  IN ChainOntoTail(W3, tail_issue_task, b)

\* Blocks of queue->block_pool that no arena holds: iree_arena_initialize takes
\* any of them, iree_arena_deinitialize gives the arena's block back.
FreeBlocks == (1..NumBatches) \ {block[a] : a \in {c \in Batches : arena[c] = "live"}}

\* The block a new arena gets: the pool hands out a block that was given back
\* before a fresh one, which is the case in which addresses repeat.
AcquireBlock == CHOOSE blk \in FreeBlocks : \A o \in FreeBlocks : blk <= o

\* Slots of the batch bound not yet claimed by a submit call.
FreeSlots ==
  LET claimed[k \in 0..NumThreads] ==
        IF k = 0 THEN 0 ELSE claimed[k - 1] + threads[k].left
  IN NumBatches - nbatches - claimed[NumThreads]

\* iree_hal_task_queue_submit is entered with batch_count = n.
Submit(t, n) ==
  /\ queue_state = "live"
  /\ threads[t].pc = "idle"
  /\ n <= FreeSlots
  /\ threads' = [threads EXCEPT ![t] = [pc |-> "loop", left |-> n, cur |-> 0, status |-> "none"]]
  /\ idle_result' = "none"
  /\ UNCHANGED <<batches, nbatches, tstate, completion_task, pending_dependency_count,
                 enqueued, tstatus, tail_issue_task, cmds, timepoints, sems,
                 semaphore_retains, semaphore_releases, arena, arena_deinits, block,
                 outstanding, flushes, queue_state>>

\* Variant: the error return of iree_hal_task_queue_submit flushes the executor.
FlushesAfterFailure_Flushed == flushes + 1

\* iree_task_executor_flush calls made when SubmitBatch returned an error:
\* IREE_RETURN_AND_END_ZONE_IF_ERROR leaves before the flush.
FlushesAfterFailure == flushes

\* iree_hal_task_queue_submit_batch fails at fp: the arena is deinitialized and
\* the error returned; iree_hal_task_queue_submit returns it without flushing.
SubmitBatchFails(t, ws, ss, n, fa, fp) ==
  LET b == nbatches + 1 IN
  /\ threads[t].pc = "loop" /\ threads[t].cur = 0 /\ threads[t].left > 0
  /\ fp \in PossibleFailures(ws) \ {"none"}
  /\ nbatches' = b
  /\ batches' = [batches EXCEPT ![b] =
       [phase |-> "failed", wait_semaphores |-> ws, signal_semaphores |-> ss,
        command_buffer_count |-> n, fail_at |-> fa, failure |-> fp]]
  /\ semaphore_retains' = RetainsAfterBuild(fp, ws, ss)
  /\ semaphore_releases' = ReleasesAfterFailure(fp, ws, ss)
  /\ outstanding' = IF FenceAcquired(fp) THEN outstanding + 1 ELSE outstanding
  /\ arena' = [arena EXCEPT ![b] = "freed"]
  /\ arena_deinits' = [arena_deinits EXCEPT ![b] = @ + 1]
  /\ block' = [block EXCEPT ![b] = AcquireBlock]
  /\ threads' = [threads EXCEPT ![t] = [pc |-> "idle", left |-> 0, cur |-> 0, status |-> "err"]]
  /\ idle_result' = "none"
  /\ flushes' = FlushesAfterFailure
  /\ UNCHANGED <<tstate, completion_task, pending_dependency_count, enqueued, tstatus,
                 tail_issue_task, cmds, timepoints, sems, queue_state>>

\* iree_hal_task_queue_submit_batch up to the release of the mutex: the three
\* commands are allocated from the new arena, the edges set and the tail handed
\* over. The head task is handed to the executor by ExecutorSubmit.
SubmitBatch(t, ws, ss, n, fa) ==
  LET b == nbatches + 1
      W == BuildEdges(World, b, ws)
  IN
  /\ threads[t].pc = "loop" /\ threads[t].cur = 0 /\ threads[t].left > 0
  /\ nbatches' = b
  /\ batches' = [batches EXCEPT ![b] =
       [phase |-> "linked", wait_semaphores |-> ws, signal_semaphores |-> ss,
        command_buffer_count |-> n, fail_at |-> fa, failure |-> "none"]]
  /\ semaphore_retains' = RetainsAfterBuild("none", ws, ss)
  /\ outstanding' = outstanding + 1
  /\ arena' = [arena EXCEPT ![b] = "live"]
  /\ tstate' = [tstate EXCEPT ![RetireTask(b)] = "new", ![IssueTask(b)] = "new",
                              ![WaitTask(b)] = IF NeedsWaitCmd(ws) THEN "new" ELSE @]
  /\ completion_task' = W.ct
  /\ pending_dependency_count' = W.pdc
  /\ tail_issue_task' = IssueTask(b)
  /\ threads' = [threads EXCEPT ![t].cur = b]
  /\ cmds' = [cmds EXCEPT ![b] = [i \in 1..n |-> [state |-> "none", edge |-> NULL]]]
  /\ timepoints' = [timepoints EXCEPT ![b] = [i \in 1..Len(ws) |-> "none"]]
  /\ idle_result' = "none"
  /\ block' = [block EXCEPT ![b] = AcquireBlock]
  /\ UNCHANGED <<enqueued, tstatus, sems, semaphore_releases,
                 arena_deinits, flushes, queue_state>>

\* iree_task_executor_submit: the submission's head task reaches the executor.
ExecutorSubmit(t) ==
  LET b == threads[t].cur IN
  /\ threads[t].pc = "loop" /\ b # 0
  /\ enqueued' = [enqueued EXCEPT ![HeadTask(b)] = TRUE]
  /\ batches' = [batches EXCEPT ![b].phase = "submitted"]
  /\ threads' = [threads EXCEPT ![t].cur = 0, ![t].left = @ - 1]
  /\ idle_result' = "none"
  /\ UNCHANGED <<nbatches, tstate, completion_task, pending_dependency_count, tstatus,
                 tail_issue_task, cmds, timepoints, sems, semaphore_retains,
                 semaphore_releases, arena, arena_deinits, block, outstanding, flushes,
                 queue_state>>

\* iree_hal_task_queue_submit after the last batch: flush and return ok.
Flush(t) ==
  /\ threads[t].pc = "loop" /\ threads[t].cur = 0 /\ threads[t].left = 0
  /\ flushes' = flushes + 1
  /\ threads' = [threads EXCEPT ![t] = [pc |-> "idle", left |-> 0, cur |-> 0, status |-> "ok"]]
  /\ idle_result' = "none"
  /\ UNCHANGED <<batches, nbatches, tstate, completion_task, pending_dependency_count,
                 enqueued, tstatus, tail_issue_task, cmds, timepoints, sems,
                 semaphore_retains, semaphore_releases, arena, arena_deinits, block,
                 outstanding, queue_state>>


\* ------------------------------------------------------------- the executor
\* A task record the executor may start: handed to it, no dependency pending.
Startable(task) ==
  /\ tstate[task] = "new"
  /\ enqueued[task]
  /\ pending_dependency_count[task] = 0

\* The wait task's closure runs.
RunWait(b) ==
  LET W == iree_hal_task_queue_wait_cmd(World, b) IN
  /\ Startable(WaitTask(b)) /\ tstatus[WaitTask(b)] = "ok"
  /\ tstate' = [tstate EXCEPT ![WaitTask(b)] = "running"]
  /\ timepoints' = W.tp
  /\ pending_dependency_count' = W.pdc
  /\ tstatus' = W.st
  /\ idle_result' = "none"
  /\ UNCHANGED <<batches, nbatches, completion_task, enqueued, tail_issue_task, cmds,
                 sems, semaphore_retains, semaphore_releases, arena, arena_deinits, block,
                 outstanding, threads, flushes, queue_state>>

\* The issue task's closure runs.
RunIssue(b) ==
  /\ Startable(IssueTask(b)) /\ tstatus[IssueTask(b)] = "ok"
  /\ tstate' = [tstate EXCEPT ![IssueTask(b)] = "running"]
  /\ cmds' = [cmds EXCEPT ![b] = iree_hal_task_queue_issue_cmd(b)]
  /\ pending_dependency_count' =
       IF IssueEdge(b) \in Tasks
       THEN [pending_dependency_count EXCEPT ![IssueEdge(b)] = @ + IssuedCount(b)]
       ELSE pending_dependency_count
  /\ tstatus' = [tstatus EXCEPT ![IssueTask(b)] =
                   IF batches[b].fail_at = 0 THEN "ok" ELSE "err"]
  /\ idle_result' = "none"
  /\ UNCHANGED <<batches, nbatches, completion_task, enqueued, tail_issue_task,
                 timepoints, sems, semaphore_retains, semaphore_releases, arena,
                 arena_deinits, block, outstanding, threads, flushes, queue_state>>

\* The retire task's closure runs.
RunRetire(b) ==
  LET W == iree_hal_task_queue_retire_cmd(World, b) IN
  /\ Startable(RetireTask(b)) /\ tstatus[RetireTask(b)] = "ok"
  /\ tstate' = [tstate EXCEPT ![RetireTask(b)] = "running"]
  /\ sems' = W.sems
  /\ timepoints' = W.tp
  /\ pending_dependency_count' = W.pdc
  /\ enqueued' = W.enq
  /\ tstatus' = W.st
  /\ idle_result' = "none"
  /\ UNCHANGED <<batches, nbatches, completion_task, tail_issue_task, cmds,
                 semaphore_retains, semaphore_releases, arena, arena_deinits, block,
                 outstanding, threads, flushes, queue_state>>

\* A task ends with the given status: its completion task is notified and its
\* cleanup callback is called with the status.
Retired(task, final) ==
  LET b == task[2]
      status == tstatus[task]
      W1 == Notify(World, completion_task[task], status)
      W == IF task[1] = "retire"
           THEN iree_hal_task_queue_retire_cmd_cleanup(W1, b, status) ELSE W1
  IN
  /\ tstate' = [tstate EXCEPT ![task] = final]
  /\ sems' = W.sems
  /\ timepoints' = W.tp
  /\ pending_dependency_count' = W.pdc
  /\ enqueued' = W.enq
  /\ tstatus' = W.st
  /\ tail_issue_task' = IF task[1] = "issue"
                        THEN iree_hal_task_queue_issue_cmd_cleanup(tail_issue_task, b)
                        ELSE tail_issue_task
  /\ semaphore_releases' =
       CASE task[1] = "wait" ->
              iree_hal_semaphore_list_release(batches[b].wait_semaphores, semaphore_releases)
         [] task[1] = "retire" ->
              iree_hal_semaphore_list_release(batches[b].signal_semaphores, semaphore_releases)
         [] OTHER -> semaphore_releases
  /\ arena' = IF task[1] = "retire" THEN [arena EXCEPT ![b] = "freed"] ELSE arena
  /\ arena_deinits' = IF task[1] = "retire" THEN [arena_deinits EXCEPT ![b] = @ + 1]
                      ELSE arena_deinits
  /\ outstanding' = IF completion_task[task] = Fence(b) /\ outstanding > 0
                    THEN outstanding - 1 ELSE outstanding
  /\ idle_result' = "none"
  /\ UNCHANGED <<batches, nbatches, completion_task, cmds, semaphore_retains, threads,
                 block, flushes, queue_state>>

\* A task whose closure has run completes.
Complete(task) ==
  /\ tstate[task] = "running"
  /\ Retired(task, "done")

\* A task one of whose dependencies failed is not run: it ends with the error.
Discard(task) ==
  /\ Startable(task) /\ tstatus[task] = "err"
  /\ Retired(task, "discarded")

\* A command issued by an issue task completes and fires the edge it was wired to.
CommandComplete(b, i) ==
  LET W == Notify(World, cmds[b][i].edge, "ok") IN
  /\ cmds[b][i].state = "issued"
  /\ cmds' = [cmds EXCEPT ![b][i].state = "done"]
  /\ pending_dependency_count' = W.pdc
  /\ enqueued' = W.enq
  /\ idle_result' = "none"
  /\ UNCHANGED <<batches, nbatches, tstate, completion_task, tstatus, tail_issue_task,
                 timepoints, sems, semaphore_retains, semaphore_releases, arena,
                 arena_deinits, block, outstanding, threads, flushes, queue_state>>

\* ---------------------------------------------------------- the environment
\* The host (or another queue) signals a semaphore.
ExternalSignal(s, v) ==
  LET W == iree_hal_semaphore_signal(World, s, v) IN
  /\ SignalOk(World, s, v)
  /\ sems' = W.sems
  /\ timepoints' = W.tp
  /\ pending_dependency_count' = W.pdc
  /\ enqueued' = W.enq
  /\ idle_result' = "none"
  /\ UNCHANGED <<batches, nbatches, tstate, completion_task, tstatus, tail_issue_task,
                 cmds, semaphore_retains, semaphore_releases, arena, arena_deinits, block,
                 outstanding, threads, flushes, queue_state>>

\* The scope is idle when no fence is outstanding.
ScopeIdle == outstanding = 0

\* Variant: a wait_idle that runs into its deadline drops the in-flight tail.
WaitIdle_DropsTail ==
  /\ queue_state = "live"
  /\ idle_result' = IF outstanding = 0 THEN "ok" ELSE "deadline_exceeded"
  /\ tail_issue_task' = IF outstanding = 0 THEN tail_issue_task ELSE NULL
  /\ UNCHANGED <<batches, nbatches, tstate, completion_task, pending_dependency_count,
                 enqueued, tstatus, cmds, timepoints, sems,
                 semaphore_retains, semaphore_releases, arena, arena_deinits, block,
                 outstanding, threads, flushes, queue_state>>

\* iree_hal_task_queue_wait_idle: ok when the scope is (or becomes) idle before
\* the deadline, deadline-exceeded otherwise.
WaitIdle ==
  /\ queue_state = "live"
  /\ idle_result' = IF ScopeIdle THEN "ok" ELSE "deadline_exceeded"
  /\ UNCHANGED <<batches, nbatches, tstate, completion_task, pending_dependency_count,
                 enqueued, tstatus, tail_issue_task, cmds, timepoints, sems,
                 semaphore_retains, semaphore_releases, arena, arena_deinits, block,
                 outstanding, threads, flushes, queue_state>>

\* iree_hal_task_queue_deinitialize: passes the infinite idle wait, then asserts
\* that no issue is in flight.
Deinitialize ==
  /\ queue_state = "live"
  /\ \A t \in Threads : threads[t].pc = "idle"
  /\ ScopeIdle
  /\ queue_state' = IF tail_issue_task = NULL THEN "deinitialized" ELSE "assert_failed"
  /\ idle_result' = "none"
  /\ UNCHANGED <<batches, nbatches, tstate, completion_task, pending_dependency_count,
                 enqueued, tstatus, tail_issue_task, cmds, timepoints, sems,
                 semaphore_retains, semaphore_releases, arena, arena_deinits, block,
                 outstanding, threads, flushes>>

\* ------------------------------------------------------------ specification
Next ==
  \/ \E t \in Callers, n \in 1..NumBatches : Submit(t, n)
  \/ \E t \in Callers, ws \in WaitLists, ss \in SignalLists,
        n \in 0..MaxCmds, fp \in FailPoints :
       SubmitBatchFails(t, ws, ss, n, 0, fp)
  \/ \E t \in Callers, ws \in WaitLists, ss \in SignalLists,
        n \in 0..MaxCmds : \E fa \in 0..n :
       SubmitBatch(t, ws, ss, n, fa)
  \/ \E t \in Callers : ExecutorSubmit(t)
  \/ \E t \in Callers : Flush(t)
  \/ \E b \in Batches : RunWait(b)
  \/ \E b \in Batches : RunIssue(b)
  \/ \E b \in Batches : RunRetire(b)
  \/ \E task \in Tasks : Complete(task)
  \/ \E task \in Tasks : Discard(task)
  \/ \E b \in Batches : \E i \in 1..Len(cmds[b]) : CommandComplete(b, i)
  \/ \E s \in ExternalSems, v \in Values : ExternalSignal(s, v)
  \/ WaitIdle
  \/ Deinitialize

Spec == Init /\ [][Next]_vars

\* Several threads call iree_hal_task_queue_submit on the queue at once, each
\* with one batch per call; the executor and the host run alongside.
NextConcurrent ==
  \/ \E t \in Threads : Submit(t, 1)
  \/ \E t \in Threads, ws \in WaitLists, ss \in SignalLists,
        n \in 0..MaxCmds : \E fa \in 0..n :
       SubmitBatch(t, ws, ss, n, fa)
  \/ \E t \in Threads : ExecutorSubmit(t)
  \/ \E t \in Threads : Flush(t)
  \/ \E b \in Batches : RunWait(b)
  \/ \E b \in Batches : RunIssue(b)
  \/ \E b \in Batches : RunRetire(b)
  \/ \E task \in Tasks : Complete(task)
  \/ \E task \in Tasks : Discard(task)
  \/ \E b \in Batches : \E i \in 1..Len(cmds[b]) : CommandComplete(b, i)
  \/ \E s \in ExternalSems, v \in Values : ExternalSignal(s, v)

SpecConcurrent == Init /\ [][NextConcurrent]_vars

\* Batches of up to MaxIssueCmds command buffers, without waits and signals.
NextIssue ==
  \/ \E t \in Callers, n \in 1..NumBatches : Submit(t, n)
  \/ \E t \in Callers, n \in 0..MaxIssueCmds : \E fa \in 0..n :
       SubmitBatch(t, <<>>, <<>>, n, fa)
  \/ \E t \in Callers : ExecutorSubmit(t)
  \/ \E t \in Callers : Flush(t)
  \/ \E b \in Batches : RunIssue(b)
  \/ \E b \in Batches : RunRetire(b)
  \/ \E task \in Tasks : Complete(task)
  \/ \E task \in Tasks : Discard(task)
  \/ \E b \in Batches : \E i \in 1..Len(cmds[b]) : CommandComplete(b, i)

SpecIssue == Init /\ [][NextIssue]_vars

\* Batches without command buffers whose wait and signal lists have up to
\* MaxLongList entries over all the semaphores.
NextLists ==
  \/ \E t \in Callers, n \in 1..NumBatches : Submit(t, n)
  \/ \E t \in Callers, ws \in LongLists, ss \in LongLists :
       SubmitBatch(t, ws, ss, 0, 0)
  \/ \E t \in Callers : ExecutorSubmit(t)
  \/ \E t \in Callers : Flush(t)
  \/ \E b \in Batches : RunWait(b)
  \/ \E b \in Batches : RunIssue(b)
  \/ \E b \in Batches : RunRetire(b)
  \/ \E task \in Tasks : Complete(task)
  \/ \E task \in Tasks : Discard(task)
  \/ \E s \in ExternalSems, v \in Values : ExternalSignal(s, v)

SpecLists == Init /\ [][NextLists]_vars


\* ------------------------------------------------------------------ notions
\* SubmitBatch got past its last chance for failure: the batch is in flight.
Live(b) == batches[b].phase \in {"linked", "submitted"}
\* The task's closure has begun to run.
Started(task) == tstate[task] \in {"running", "done"}
\* The task is over (run and completed, or discarded) and its cleanup was called.
Ended(task) == tstate[task] \in {"done", "discarded"}
\* The issue task of b ran and returned a non-ok status.
IssueFailed(b) == tstate[IssueTask(b)] = "done" /\ batches[b].fail_at # 0

\* No submit call is in progress and the executor has nothing left to do.
Quiescent ==
  /\ \A t \in Threads : threads[t].pc = "idle"
  /\ \A task \in Tasks : ~Startable(task) /\ tstate[task] # "running"
  /\ \A b \in Batches : \A i \in 1..Len(cmds[b]) : cmds[b][i].state # "issued"

\* No command buffer of any batch is made to fail at issue.
NoIssueFailure == \A b \in Batches : batches[b].fail_at = 0

\* No timepoint of any batch is still waiting for its semaphore.
NoPendingWaits ==
  \A b \in Batches : \A i \in 1..Len(timepoints[b]) : timepoints[b][i] # "pending"

\* Steady state: nothing in flight and nothing waited for.
Settled == Quiescent /\ NoPendingWaits

ArenasInitialized == Cardinality({b \in Batches : arena[b] # "none"})
ArenasDeinitialized ==
  LET sum[k \in 0..NumBatches] == IF k = 0 THEN 0 ELSE sum[k - 1] + arena_deinits[k]
  IN sum[NumBatches]

\* ------------------------------------------------------------------- claims

\* C1: FIFO issue order. For two batches A, B submitted in that order, B's
\* issue task does not start running before A's issue task is over.
C1_FifoIssue ==
  \A a \in Batches, b \in Batches :
    (a < b /\ Live(a) /\ Live(b) /\ Started(IssueTask(b))) => Ended(IssueTask(a))

\* B was chained onto A's in-flight issue task and has started.
C1_Witness ==
  /\ Live(1) /\ Live(2)
  /\ completion_task[IssueTask(1)] = IssueTask(2)
  /\ tstate[IssueTask(1)] = "done"
  /\ tstate[IssueTask(2)] = "running"

\* C2: the retire task of a batch runs only after the batch's issue task has
\* completed and every command that issue task produced has completed.
C2_RetireAfterCommands ==
  \A b \in Batches :
    (Live(b) /\ Started(RetireTask(b))) =>
      /\ tstate[IssueTask(b)] = "done"
      /\ \A i \in 1..Len(cmds[b]) : cmds[b][i].state = "done"

\* A retire task runs after its batch's commands, a later batch being in flight.
C2_Witness ==
  /\ Live(1) /\ Live(2)
  /\ tstate[RetireTask(1)] = "running"
  /\ Len(cmds[1]) > 0
  /\ tstate[IssueTask(2)] = "new"

\* C3: for a batch with waits the issue task does not start before every
\* timepoint of the wait list was reached; and with all waits satisfied
\* beforehand the command buffers are issued and the signal semaphores reach
\* their values once the queue has settled.
C3_WaitsGateIssue ==
  \A b \in Batches :
    (Live(b) /\ batches[b].wait_semaphores # <<>>) =>
      LET ws == batches[b].wait_semaphores
          ss == batches[b].signal_semaphores
      IN /\ Started(IssueTask(b)) =>
              \A i \in 1..Len(ws) : sems[ws[i][1]].value >= ws[i][2]
         /\ ( /\ Settled
              /\ NoIssueFailure
              /\ \A i \in 1..Len(ws) : timepoints[b][i] = "elided"
              /\ \A j \in 1..Len(ss) : ~sems[ss[j][1]].failed )
            => /\ \A i \in 1..Len(cmds[b]) : cmds[b][i].state # "none"
               /\ \A j \in 1..Len(ss) : sems[ss[j][1]].value >= ss[j][2]

\* C4: failure propagation. When a command buffer of a batch fails at issue,
\* the retire task of the batch is still reached and every signal semaphore of
\* the batch ends failed.
C4_FailurePropagation ==
  \A b \in Batches :
    (Live(b) /\ Settled /\ IssueFailed(b)) =>
      /\ Ended(RetireTask(b))
      /\ \A j \in 1..Len(batches[b].signal_semaphores) :
           sems[batches[b].signal_semaphores[j][1]].failed

\* Batch b2 waits on a timepoint that batch b1 signals.
WaitsOnSignalOf(b2, b1) ==
  \E i \in 1..Len(batches[b2].wait_semaphores),
     j \in 1..Len(batches[b1].signal_semaphores) :
    batches[b2].wait_semaphores[i] = batches[b1].signal_semaphores[j]

\* C5: the failure cascade does not hang. When B1 failed during issue and a
\* later batch B2 waits on a timepoint B1 signals, then once nothing is left to
\* run B2 is over with a failure: its signal semaphores are failed.
C5_FailureCascade ==
  \A b1 \in Batches, b2 \in Batches :
    ( /\ b1 < b2 /\ Live(b1) /\ Live(b2)
      /\ Quiescent
      /\ IssueFailed(b1)
      /\ WaitsOnSignalOf(b2, b1) )
    => /\ Ended(RetireTask(b2))
       /\ tstatus[RetireTask(b2)] = "err"
       /\ \A j \in 1..Len(batches[b2].signal_semaphores) :
            sems[batches[b2].signal_semaphores[j][1]].failed

\* C6: arena lifetime. The arena of a submitted batch is deinitialized exactly
\* once, by the retire cleanup, and only after the wait, issue and retire tasks
\* of the batch are over.
C6_ArenaLifetime ==
  \A b \in Batches :
    Live(b) =>
      /\ arena_deinits[b] <= 1
      /\ arena[b] = "freed" =>
           /\ Ended(RetireTask(b)) /\ Ended(IssueTask(b))
           /\ batches[b].wait_semaphores # <<>> => Ended(WaitTask(b))
      /\ Settled => arena_deinits[b] = 1

\* C7: no leaks. At steady state, every submitted batch having retired, every
\* retain has been released and every arena initialized has been deinitialized.
C7_NoLeaks ==
  (Settled /\ \A b \in Batches : Live(b) => Ended(RetireTask(b))) =>
    /\ \A s \in Sems : semaphore_retains[s] = semaphore_releases[s]
    /\ ArenasInitialized = ArenasDeinitialized

\* C8: a SubmitBatch that fails after the retire command was created has
\* deinitialized the arena and released every retain it took when it returns.
C8_FailedSubmitReversible ==
  /\ \A b \in Batches : batches[b].phase = "failed" => arena[b] = "freed"
  /\ (\A b \in Batches : batches[b].phase \in {"unused", "failed"}) =>
       \A s \in Sems : semaphore_retains[s] = semaphore_releases[s]

\* C9: idle implies no tail. Whenever the scope is idle, tail_issue_task is
\* null; a wait_idle that returned ok saw an idle scope and a null tail; the
\* assertion of deinitialize does not fail.
C9_IdleNoTail ==
  /\ ScopeIdle => tail_issue_task = NULL
  /\ idle_result = "ok" => (ScopeIdle /\ tail_issue_task = NULL)
  /\ queue_state # "assert_failed"

\* wait_idle returns ok after a batch went through the queue and retired.
C9_Witness ==
  /\ idle_result = "ok"
  /\ Live(1) /\ tstate[RetireTask(1)] = "done" /\ tstate[IssueTask(1)] = "done"

\* C10: progress. After successful submits whose waits were all reached and
\* whose commands all completed, every batch has retired, the scope is idle and
\* tail_issue_task is null.
C10_Progress ==
  ( /\ Settled
    /\ NoIssueFailure
    /\ \A b \in Batches : batches[b].phase # "failed" )
  => /\ \A b \in Batches : Live(b) => Ended(RetireTask(b))
     /\ ScopeIdle
     /\ tail_issue_task = NULL

\* C11: same-queue chaining is elided. When B1 signals a timepoint and a later
\* batch B2 of the queue waits on it, B2's wait never enqueues an unsatisfied
\* timepoint for it, and the semaphore has the value once both have retired.
C11_SameQueueElision ==
  \A b1 \in Batches, b2 \in Batches :
    (b1 < b2 /\ Live(b1) /\ Live(b2) /\ WaitsOnSignalOf(b2, b1)) =>
      LET ws == batches[b2].wait_semaphores
          ss == batches[b1].signal_semaphores
      IN /\ \A i \in 1..Len(ws) :
              (\E j \in 1..Len(ss) : ss[j] = ws[i]) =>
                 timepoints[b2][i] \in {"none", "elided"}
         /\ (tstate[RetireTask(b1)] = "done" /\ tstate[RetireTask(b2)] = "done") =>
              \A j \in 1..Len(ss) : sems[ss[j][1]].value >= ss[j][2]

\* A submit call of thread t returns the error of a failing SubmitBatch.
ReturnsError(t) ==
  threads[t].pc = "loop" /\ threads'[t].pc = "idle" /\ threads'[t].status = "err"

\* A submit call of thread t returns ok.
ReturnsOk(t) ==
  threads[t].pc = "loop" /\ threads'[t].pc = "idle" /\ threads'[t].status = "ok"

C13_TailInvariant ==
  \/ tail_issue_task = NULL
  \/ \E b \in Batches :
       /\ Live(b)
       /\ tail_issue_task = IssueTask(b)
       /\ ~Ended(IssueTask(b))

\* Two submit calls are in progress; the first batch's issue cleanup has run
\* and left the tail with the second batch's issue task.
C13_Witness ==
  /\ threads[1].pc = "loop" /\ threads[2].pc = "loop"
  /\ tstate[IssueTask(1)] = "done"
  /\ tail_issue_task = IssueTask(2)
  /\ tstate[IssueTask(2)] = "new"

\* Batches a < b are in flight with no batch in flight between them.
Consecutive(a, b) ==
  /\ a < b /\ Live(a) /\ Live(b)
  /\ \A c \in Batches : (a < c /\ c < b) => ~Live(c)

\* C14: concurrent submits are safe. The issue tasks form one chain in the
\* order of the mutex sections: an edge between issue tasks goes from a batch
\* to the next one only, a batch whose issue is not over is chained to the
\* next, the tail is the last link, and the issue tasks run in that order.
C14_ConcurrentChain ==
  /\ \A a \in Batches, b \in Batches :
       completion_task[IssueTask(a)] = IssueTask(b) => Consecutive(a, b)
  /\ \A a \in Batches, b \in Batches :
       Consecutive(a, b) =>
         \/ completion_task[IssueTask(a)] = IssueTask(b)
         \/ Ended(IssueTask(a))
  /\ \A b \in Batches :
       (Live(b) /\ ~Ended(IssueTask(b)) /\ \A c \in Batches : c > b => ~Live(c)) =>
         tail_issue_task = IssueTask(b)
  /\ \A a \in Batches, b \in Batches :
       (a < b /\ Live(a) /\ Live(b) /\ Started(IssueTask(b))) => Ended(IssueTask(a))

\* Two threads submit at once: the second batch was chained onto the first and
\* its head task reached the executor before the first batch's did.
C14_Witness ==
  /\ threads[1].pc = "loop" /\ threads[2].pc = "loop"
  /\ completion_task[IssueTask(1)] = IssueTask(2)
  /\ batches[1].phase = "linked" /\ batches[2].phase = "submitted"
  /\ enqueued[HeadTask(2)] /\ ~enqueued[HeadTask(1)]

\* The wait task of b, if it has one, is over and none of its timepoints pends.
WaitsOver(b) ==
  \/ ~NeedsWaitCmd(batches[b].wait_semaphores)
  \/ /\ Ended(WaitTask(b))
     /\ \A i \in 1..Len(timepoints[b]) : timepoints[b][i] # "pending"

\* C15: overlap is permitted. The FIFO edge orders issue tasks only: commands
\* of a batch whose issue edge was not redirected complete into its own retire
\* task, and an issue task that no earlier issue task is chained to depends on
\* its own waits alone, so it can start while earlier commands are running.
C15_OverlapPermitted ==
  /\ \A a \in Batches : \A i \in 1..Len(cmds[a]) :
       (Live(a) /\ cmds[a][i].state # "none"
          /\ completion_task[IssueTask(a)] = RetireTask(a)) =>
         cmds[a][i].edge = RetireTask(a)
  /\ \A b \in Batches :
       ( /\ Live(b) /\ tstate[IssueTask(b)] = "new"
         /\ \A a \in Batches : completion_task[IssueTask(a)] # IssueTask(b)
         /\ WaitsOver(b) )
       => pending_dependency_count[IssueTask(b)] = 0

\* A command of the second batch runs while a command of the first still does.
C15_Witness ==
  /\ Live(1) /\ Live(2)
  /\ Len(cmds[1]) > 0 /\ cmds[1][1].state = "issued"
  /\ Len(cmds[2]) > 0 /\ cmds[2][1].state = "issued"

\* C16: a batch with zero command buffers is legal. With or without waits, once
\* the queue has settled its issue task has returned ok having issued nothing,
\* its retire task has run, its signal semaphores have their values and its
\* arena is freed.
C16_EmptyBatch ==
  \A b \in Batches :
    ( /\ Live(b) /\ batches[b].command_buffer_count = 0
      /\ Settled
      /\ NoIssueFailure
      /\ \A i \in 1..Len(timepoints[b]) : timepoints[b][i] \in {"elided", "reached"}
      /\ \A j \in 1..Len(batches[b].signal_semaphores) :
           ~sems[batches[b].signal_semaphores[j][1]].failed )
    => /\ tstate[IssueTask(b)] = "done" /\ tstatus[IssueTask(b)] = "ok"
       /\ cmds[b] = <<>>
       /\ tstate[RetireTask(b)] = "done"
       /\ \A j \in 1..Len(batches[b].signal_semaphores) :
            sems[batches[b].signal_semaphores[j][1]].value >=
              batches[b].signal_semaphores[j][2]
       /\ arena[b] = "freed"

\* C17: a wait_idle that returns deadline-exceeded changes nothing: the tail,
\* the outstanding count, the task edges, the arenas and all the rest of the
\* queue's and the tasks' state are as before the call, so what is in flight
\* goes on exactly as without it.
C17_WaitIdleFrame ==
  [][ idle_result' = "deadline_exceeded" =>
        /\ ~ScopeIdle
        /\ UNCHANGED <<batches, nbatches, tstate, completion_task,
                       pending_dependency_count, enqueued, tstatus, tail_issue_task,
                       cmds, timepoints, sems, semaphore_retains, semaphore_releases,
                       arena, arena_deinits, block, outstanding, threads, flushes,
                       queue_state>>
    ]_vars

\* wait_idle has returned deadline-exceeded while a batch is in flight, its
\* issue task the tail and running.
C17_Witness ==
  /\ idle_result = "deadline_exceeded"
  /\ Live(1) /\ tail_issue_task = IssueTask(1)
  /\ tstate[IssueTask(1)] = "running"
  /\ outstanding > 0

\* C18: when the issue task of a batch runs, its completion edge is the batch's
\* own retire task, so every command buffer it issues is wired to the batch's
\* own retire task; also for a batch that was the tail when a later batch was
\* submitted.
C18_IssueEdgeIsOwnRetire ==
  \A b \in Batches :
    Live(b) =>
      \A i \in 1..Len(cmds[b]) :
        cmds[b][i].state # "none" => cmds[b][i].edge = RetireTask(b)

\* The issue task of batch a ends in this step: its cleanup callback is called.
IssueCleanupRuns(a) ==
  /\ tstate[IssueTask(a)] \in {"new", "running"}
  /\ tstate'[IssueTask(a)] \in {"done", "discarded"}

\* C19: the issue cleanup of batch A sets tail_issue_task to null only when it
\* designates A's own issue task; a tail that a later batch B has taken over is
\* left designating B's issue task. Reuse of released arena blocks does not
\* change this: two issue tasks whose cleanup is yet to run never lie in the
\* same block, and the tail never shares a block with another such task.
C19_CleanupNullsOwnTailOnly ==
  /\ [](\A a \in Batches, b \in Batches :
          ( /\ a # b
            /\ tstate[IssueTask(a)] \in {"new", "running"}
            /\ \/ tstate[IssueTask(b)] \in {"new", "running"}
               \/ tail_issue_task = IssueTask(b) )
          => Address(IssueTask(a)) # Address(IssueTask(b)))
  /\ [][ \A a \in Batches : IssueCleanupRuns(a) =>
           tail_issue_task' = IF tail_issue_task = IssueTask(a) THEN NULL
                              ELSE tail_issue_task
       ]_vars

\* Batch 1's issue cleanup has run after batch 2 took the tail over, and the
\* tail still designates batch 2's issue task.
C19_Witness ==
  /\ \A t \in Threads : threads[t].pc = "idle"
  /\ completion_task[IssueTask(1)] = IssueTask(2)
  /\ tstate[IssueTask(1)] = "done"
  /\ tail_issue_task = IssueTask(2)

\* C20: the issue task issues the command buffers of its batch in list order
\* and stops at the first non-ok status: the command buffers issued are at all
\* times a prefix of the list, none at or after the failing one is issued, and
\* once the issue task has run all those before it are.
C20_IssuePrefix ==
  \A b \in Batches :
    Live(b) =>
      /\ Len(cmds[b]) = batches[b].command_buffer_count
      /\ \A i \in 1..Len(cmds[b]), j \in 1..Len(cmds[b]) :
           (i < j /\ cmds[b][j].state # "none") => cmds[b][i].state # "none"
      /\ batches[b].fail_at # 0 =>
           \A j \in 1..Len(cmds[b]) :
             j >= batches[b].fail_at => cmds[b][j].state = "none"
      /\ Started(IssueTask(b)) =>
           /\ \A i \in 1..Len(cmds[b]) :
                (batches[b].fail_at = 0 \/ i < batches[b].fail_at) =>
                  cmds[b][i].state # "none"
           /\ tstatus[IssueTask(b)] = "err" <=> batches[b].fail_at # 0

\* An issue task has issued the first command buffer of three, met the failure
\* of the second and left the third alone.
C20_Witness ==
  \E b \in Batches :
    /\ Live(b) /\ Len(cmds[b]) = 3 /\ batches[b].fail_at = 2
    /\ tstate[IssueTask(b)] = "done"
    /\ cmds[b][1].state # "none"
    /\ cmds[b][2].state = "none" /\ cmds[b][3].state = "none"

\* C21: head task selection. SubmitBatch hands one head task per batch to the
\* executor: the wait task when the wait list is non-empty, the issue task when
\* it is empty, and then no wait task is created at all.
C21_HeadTask ==
  /\ [](\A b \in Batches : Live(b) =>
          /\ tstate[IssueTask(b)] # "none" /\ tstate[RetireTask(b)] # "none"
          /\ batches[b].wait_semaphores = <<>> =>
               (tstate[WaitTask(b)] = "none" /\ ~enqueued[WaitTask(b)])
          /\ batches[b].wait_semaphores # <<>> => tstate[WaitTask(b)] # "none"
          /\ batches[b].phase = "submitted" =>
               enqueued[IF batches[b].wait_semaphores # <<>>
                        THEN WaitTask(b) ELSE IssueTask(b)]
          /\ batches[b].phase = "linked" =>
               ~enqueued[WaitTask(b)])
  /\ [][ \A b \in Batches :
           (batches[b].phase = "linked" /\ batches'[b].phase = "submitted") =>
             LET head == IF batches[b].wait_semaphores # <<>>
                         THEN WaitTask(b) ELSE IssueTask(b)
             IN enqueued' = [enqueued EXCEPT ![head] = TRUE]
       ]_vars

\* One batch with waits and one without have been handed to the executor: the
\* wait task of the first, the issue task of the second.
C21_Witness ==
  /\ batches[1].phase = "submitted" /\ batches[1].wait_semaphores # <<>>
  /\ enqueued[WaitTask(1)] /\ ~enqueued[IssueTask(1)]
  /\ batches[2].phase = "submitted" /\ batches[2].wait_semaphores = <<>>
  /\ enqueued[IssueTask(2)] /\ tstate[WaitTask(2)] = "none"

\* C22: the FIFO edge targets the issue task, not the head task. No edge ever
\* leads into a wait task, so a wait task handed to the executor can start
\* whatever the previous batch's issue task is doing, and the edge of an issue
\* task leads to its own retire task or to a later issue task.
C22_FifoEdgeTargetsIssue ==
  /\ \A task \in Tasks, b \in Batches : completion_task[task] # WaitTask(b)
  /\ \A b \in Batches : pending_dependency_count[WaitTask(b)] = 0
  /\ \A b \in Batches :
       (batches[b].phase = "submitted" /\ tstate[WaitTask(b)] = "new") =>
         Startable(WaitTask(b))
  /\ \A a \in Batches :
       Live(a) =>
         \/ completion_task[IssueTask(a)] = RetireTask(a)
         \/ \E b \in Batches : b > a /\ completion_task[IssueTask(a)] = IssueTask(b)

\* Batch 2's wait task has run while batch 1's issue task is still running;
\* batch 2's issue task is held back by the edge from batch 1's issue task.
C22_Witness ==
  /\ Live(1) /\ Live(2)
  /\ tstate[IssueTask(1)] = "running"
  /\ tstate[WaitTask(2)] = "done"
  /\ completion_task[IssueTask(1)] = IssueTask(2)
  /\ tstate[IssueTask(2)] = "new"
  /\ pending_dependency_count[IssueTask(2)] > 0

\* C23: retires are not ordered. No edge leads from one batch into the retire
\* task of another: a retire task whose issue edge was not redirected waits for
\* its own issue task and its own in-flight commands only, so a batch submitted
\* later can retire and signal before an earlier one retires.
C23_RetiresUnordered ==
  \A b \in Batches :
    Live(b) =>
      /\ \A task \in Tasks : completion_task[task] = RetireTask(b) => task = IssueTask(b)
      /\ \A a \in Batches : \A i \in 1..Len(cmds[a]) :
           cmds[a][i].edge = RetireTask(b) => a = b
      /\ (tstate[RetireTask(b)] = "new" /\ completion_task[IssueTask(b)] = RetireTask(b)) =>
           pending_dependency_count[RetireTask(b)] =
             (IF Ended(IssueTask(b)) THEN 0 ELSE 1)
             + Cardinality({i \in 1..Len(cmds[b]) : cmds[b][i].state = "issued"})

\* Batch 2 has retired and signaled its semaphore while a command of batch 1,
\* wired to batch 1's own retire task, still runs and batch 1 has not retired.
C23_Witness ==
  /\ Live(1) /\ Live(2)
  /\ tstate[RetireTask(2)] = "done" /\ tstatus[RetireTask(2)] = "ok"
  /\ Len(batches[2].signal_semaphores) > 0
  /\ sems[batches[2].signal_semaphores[1][1]].value >= batches[2].signal_semaphores[1][2]
  /\ tstate[RetireTask(1)] = "new"
  /\ Len(cmds[1]) > 0 /\ cmds[1][1].state = "issued" /\ cmds[1][1].edge = RetireTask(1)

\* C24: the retire task signals in list order and stops at the first failing
\* signal. When it runs, the entries before the first one whose semaphore is
\* failed or whose value does not advance the semaphore are signaled, each
\* semaphore ending at the value of its last such entry; no other semaphore
\* changes, no semaphore is failed by the run, and the task's status is the
\* error exactly when some entry failed.
C24_RetireStopsAtFirstFailure ==
  [][ \A b \in Batches :
        (tstate[RetireTask(b)] = "new" /\ tstate'[RetireTask(b)] = "running") =>
          LET list == batches[b].signal_semaphores
              Before(i) ==
                LET prior == {j \in 1..(i - 1) : list[j][1] = list[i][1]}
                IN IF prior = {} THEN sems[list[i][1]].value
                   ELSE list[CHOOSE j \in prior : \A k \in prior : k <= j][2]
              bad == {i \in 1..Len(list) :
                        sems[list[i][1]].failed \/ list[i][2] <= Before(i)}
              signaled == IF bad = {} THEN Len(list)
                          ELSE (CHOOSE i \in bad : \A j \in bad : i <= j) - 1
              Last(s) == {j \in 1..signaled : list[j][1] = s}
          IN /\ \A s \in Sems :
                  /\ sems'[s].failed = sems[s].failed
                  /\ sems'[s].value =
                       IF Last(s) = {} THEN sems[s].value
                       ELSE list[CHOOSE j \in Last(s) : \A k \in Last(s) : k <= j][2]
             /\ tstatus'[RetireTask(b)] = IF bad = {} THEN "ok" ELSE "err"
    ]_vars

\* Both retire tasks have run and failed: batch 1's second signal of semaphore 1
\* failed after its first had set the value, which stays; batch 2's first
\* signal failed and semaphore 2, next in its list, was never signaled.
C24_Witness ==
  /\ batches[1].signal_semaphores = << <<1, 1>>, <<1, 1>> >>
  /\ batches[2].signal_semaphores = << <<1, 1>>, <<2, 1>> >>
  /\ tstate[RetireTask(1)] = "running" /\ tstatus[RetireTask(1)] = "err"
  /\ tstate[RetireTask(2)] = "running" /\ tstatus[RetireTask(2)] = "err"
  /\ sems[1].value = 1 /\ ~sems[1].failed
  /\ sems[2].value = 0 /\ ~sems[2].failed

\* C25: the retire cleanup fails semaphores exactly when its status is not ok.
\* When a retire task ends with a non-ok status every semaphore of its signal
\* list is failed, the already signaled ones too; with an ok status none is. In
\* both cases no value changes, every entry of the signal list is released once
\* and the batch's arena is deinitialized.
C25_RetireCleanup ==
  [][ \A b \in Batches :
        (tstate[RetireTask(b)] \in {"new", "running"}
           /\ tstate'[RetireTask(b)] \in {"done", "discarded"}) =>
          LET list == batches[b].signal_semaphores
              named == {list[i][1] : i \in 1..Len(list)}
          IN /\ \A s \in Sems :
                  /\ sems'[s].failed =
                       (sems[s].failed \/ (tstatus[RetireTask(b)] # "ok" /\ s \in named))
                  /\ sems'[s].value = sems[s].value
             /\ semaphore_releases' =
                  [s \in Sems |-> semaphore_releases[s] + CountOf(list, s)]
             /\ arena[b] = "live" /\ arena'[b] = "freed"
             /\ arena_deinits'[b] = arena_deinits[b] + 1
    ]_vars

\* Batch 1 has retired with an ok status and batch 2 with an error: it signaled
\* semaphore 2 and then failed to signal semaphore 1; both semaphores are
\* failed, semaphore 2 at its signaled value, and both arenas are freed.
C25_Witness ==
  /\ batches[1].signal_semaphores = << <<1, 1>> >>
  /\ tstate[RetireTask(1)] = "done" /\ tstatus[RetireTask(1)] = "ok"
  /\ batches[2].signal_semaphores = << <<2, 1>>, <<1, 1>> >>
  /\ tstate[RetireTask(2)] = "done" /\ tstatus[RetireTask(2)] = "err"
  /\ sems[2].value = 1 /\ sems[2].failed /\ sems[1].failed
  /\ semaphore_releases[1] = 2 /\ semaphore_releases[2] = 1
  /\ arena[1] = "freed" /\ arena[2] = "freed"

\* C26: the wait task enqueues timepoints in list order and stops at the first
\* failing enqueue. When it runs, the entries before the first one on a failed
\* semaphore are enqueued (elided when already reached, else pending on the
\* task's completion task), that entry and the later ones are not, and the
\* task's status is the error exactly when some enqueue failed. When the wait
\* task ends, the enqueued timepoints are as they were and every entry of the
\* wait list is released once, whatever the status.
C26_WaitStopsAtFirstFailure ==
  [][ \A b \in Batches :
        LET list == batches[b].wait_semaphores
            bad == {i \in 1..Len(list) : sems[list[i][1]].failed}
            done == IF bad = {} THEN Len(list)
                    ELSE (CHOOSE i \in bad : \A j \in bad : i <= j) - 1
            pending == {i \in 1..done : sems[list[i][1]].value < list[i][2]}
        IN
        /\ (tstate[WaitTask(b)] = "new" /\ tstate'[WaitTask(b)] = "running") =>
             /\ Len(timepoints'[b]) = Len(list)
             /\ \A i \in 1..Len(list) :
                  timepoints'[b][i] =
                    IF i > done THEN "none"
                    ELSE IF i \in pending THEN "pending" ELSE "elided"
             /\ tstatus'[WaitTask(b)] = IF bad = {} THEN "ok" ELSE "err"
             /\ completion_task[WaitTask(b)] = IssueTask(b)
             /\ pending_dependency_count'[IssueTask(b)] =
                  pending_dependency_count[IssueTask(b)] + Cardinality(pending)
             /\ sems' = sems
        /\ (tstate[WaitTask(b)] \in {"new", "running"}
              /\ tstate'[WaitTask(b)] \in {"done", "discarded"}) =>
             /\ timepoints' = timepoints
             /\ semaphore_releases' =
                  [s \in Sems |-> semaphore_releases[s] + CountOf(list, s)]
    ]_vars

\* Batch 2's wait task has ended with an error: its first timepoint, on
\* semaphore 2, is still pending, and the second, on the failed semaphore 1,
\* was not enqueued; its two wait retains have been released.
C26_Witness ==
  /\ batches[2].wait_semaphores = << <<2, 1>>, <<1, 1>> >>
  /\ tstate[WaitTask(2)] = "done" /\ tstatus[WaitTask(2)] = "err"
  /\ timepoints[2] = <<"pending", "none">>
  /\ sems[1].failed /\ sems[2].value = 0 /\ ~sems[2].failed
  /\ semaphore_releases[2] >= 1
  /\ semaphore_releases[1] >= 1 + CountOf(batches[1].signal_semaphores, 1)

\* C28: the scope's outstanding count equals the number of batches in flight,
\* those whose fence was acquired and whose retire task has not yet completed
\* into it; a SubmitBatch that failed, also after acquiring the fence, is not
\* among them and leaves the count as it was.
C28_OutstandingCount ==
  outstanding = Cardinality({b \in Batches : Live(b) /\ ~Ended(RetireTask(b))})

=============================================================================
